---- MODULE Spec2Model ----
(***************************************************************************)
(* The translation request wizard: the root component TranslationPortal    *)
(* (file intake, session state), the AnalysisPopup overlay (the Blueprint  *)
(* Matcher with its delay timer) and the hand-off to CheckAndFinalizeForm. *)
(* Strings are sequences of one-character strings, so that toLowerCase and *)
(* includes are computed as the code computes them.                        *)
(***************************************************************************)
EXTENDS Integers, Sequences, FiniteSets, TLC

\* ------------------------------------------------------------------ bounds

\* Most files the intake list holds in the intake specification.
MaxFiles == 2

\* Most files the list holds in the wizard specification.
MaxWizardFiles == 1

\* Longest file list the delete specification starts from.
MaxListLen == 3

\* Most files one drop brings.
MaxDrop == 2

\* Milliseconds of real time one Tick step lets pass.
TickMs == 1000

\* ------------------------------------------------------------------ strings

UpperCase ==
  <<"A", "B", "C", "D", "E", "F", "G", "H", "I", "J", "K", "L", "M",
    "N", "O", "P", "Q", "R", "S", "T", "U", "V", "W", "X", "Y", "Z">>

LowerCase ==
  <<"a", "b", "c", "d", "e", "f", "g", "h", "i", "j", "k", "l", "m",
    "n", "o", "p", "q", "r", "s", "t", "u", "v", "w", "x", "y", "z">>

\* The lowercase letter of each uppercase letter.
lowerOf ==
  [c \in {UpperCase[i] : i \in 1..Len(UpperCase)} |->
     LowerCase[CHOOSE i \in 1..Len(UpperCase) : UpperCase[i] = c]]

\* String.prototype.toLowerCase, one character.
toLowerChar(c) == IF c \in DOMAIN lowerOf THEN lowerOf[c] ELSE c

\* String.prototype.toLowerCase.
toLowerCase(s) == [i \in 1..Len(s) |-> toLowerChar(s[i])]

\* String.prototype.includes: k occurs in s as a contiguous substring.
includes(s, k) ==
  \E i \in 0..(Len(s) - Len(k)) : \A j \in 1..Len(k) : s[i + j] = k[j]

\* ------------------------------------------------------------------ classification

FileTypes == {"work", "reference", "glossary", "instructions"}

\* Object.entries(fileTypeMap): the keys are non-numeric strings, so the
\* entries come in insertion order.
fileTypeMap ==
  << [keyword |-> <<"r", "e", "f", "e", "r", "e", "n", "c", "e">>, type |-> "reference"],
     [keyword |-> <<"r", "e", "f", "e", "r", "e", "n", "c", "e", "s">>, type |-> "reference"],
     [keyword |-> <<"r", "e", "f">>, type |-> "reference"],
     [keyword |-> <<"r", "e", "f", "s">>, type |-> "reference"],
     [keyword |-> <<"i", "n", "s", "t", "r", "u", "c", "t", "i", "o", "n">>, type |-> "instructions"],
     [keyword |-> <<"i", "n", "s", "t", "r", "u", "c", "t", "i", "o", "n", "s">>, type |-> "instructions"],
     [keyword |-> <<"g", "u", "i", "d", "e">>, type |-> "instructions"],
     [keyword |-> <<"t", "u", "t", "o", "r", "i", "a", "l">>, type |-> "instructions"],
     [keyword |-> <<"g", "l", "o", "s", "s", "a", "r", "y">>, type |-> "glossary"],
     [keyword |-> <<"t", "e", "r", "m">>, type |-> "glossary"],
     [keyword |-> <<"t", "e", "r", "m", "s">>, type |-> "glossary"],
     [keyword |-> <<"d", "e", "f", "i", "n", "i", "t", "i", "o", "n", "s">>, type |-> "glossary"] >>

\* The for loop of determineFileType from entry n on.
RECURSIVE determineFileTypeFrom(_, _)
determineFileTypeFrom(lowerFileName, n) ==
  IF n > Len(fileTypeMap) THEN "work"
  ELSE IF includes(lowerFileName, fileTypeMap[n].keyword) THEN fileTypeMap[n].type
  ELSE determineFileTypeFrom(lowerFileName, n + 1)

\* A plausible slip: the file name is matched without being lowercased.
determineFileTypeCaseSensitive(fileName) == determineFileTypeFrom(fileName, 1)

determineFileType(fileName) == determineFileTypeFrom(toLowerCase(fileName), 1)

\* ------------------------------------------------------------------ inputs

\* Files a drop can bring: the dropzone's path, the browser's
\* webkitRelativePath and the plain name (the empty string when unset).
TermsRefCsv ==
  [path |-> <<"d", "o", "c", "s", "/", "T", "e", "r", "m", "s", "_", "R", "E", "F", ".", "c", "s", "v">>,
   webkitRelativePath |-> <<>>,
   name |-> <<"T", "e", "r", "m", "s", "_", "R", "E", "F", ".", "c", "s", "v">>]

ChapterDocx ==
  [path |-> <<>>,
   webkitRelativePath |-> <<"s", "r", "c", "/", "c", "h", "a", "p", "t", "e", "r", "1", ".", "d", "o", "c", "x">>,
   name |-> <<"c", "h", "a", "p", "t", "e", "r", "1", ".", "d", "o", "c", "x">>]

GuideTxt ==
  [path |-> <<>>, webkitRelativePath |-> <<>>,
   name |-> <<"G", "u", "i", "d", "e", ".", "T", "X", "T">>]

DroppedFiles == {TermsRefCsv, ChapterDocx}

WizardDroppedFiles == {GuideTxt}

\* What the user types into the intake search box.
FileSearchTerms == { <<>>, <<"R", "E", "F">> }

\* The drops of at most MaxDrop files of D that keep the list within max.
Drops(D, max, len) ==
  UNION { [1..n -> D] : n \in 1..(IF max - len < MaxDrop THEN max - len ELSE MaxDrop) }

\* ------------------------------------------------------------------ catalog

\* The static catalog, by the six fields the search reads. A blueprint value
\* is passed around by reference: it is modelled by its index in the catalog.
blueprints ==
  <<
    [
      name |-> <<"S", "a", "m", "p", "l", "e", " ", "P", "r", "o", "j", "e", "c", "t">>,
      workgroup |-> <<"G", "l", "o", "b", "a", "l", " ", "W", "o", "r", "k", "g", "r", "o", "u", "p">>,
      division |-> <<"L", "i", "f", "e", " ", "S", "c", "i", "e", "n", "c", "e", "s">>,
      product |-> <<"O", "p", "a", "l", " ", "C", "l", "i", "n", "i", "c", "a", "l">>,
      program |-> <<"C", "l", "i", "n", "i", "c", "a", "l", " ", "T", "r", "i", "a", "l", "s", " ",
                    "L", "o", "c", "a", "l", "i", "z", "a", "t", "i", "o", "n">>,
      requester |-> <<"J", "o", "h", "n", " ", "D", "o", "e">> ],
    [
      name |-> <<"R", "e", "g", "u", "l", "a", "t", "o", "r", "y", " ", "C", "o", "m", "p", "l",
                 "i", "a", "n", "c", "e", " ", "U", "p", "d", "a", "t", "e">>,
      workgroup |-> <<"E", "M", "E", "A", " ", "O", "p", "e", "r", "a", "t", "i", "o", "n", "s">>,
      division |-> <<"R", "e", "g", "u", "l", "a", "t", "o", "r", "y", " ", "A", "f", "f", "a", "i",
                     "r", "s">>,
      product |-> <<"O", "p", "a", "l", " ", "V", "i", "g", "i", "l", "a", "n", "c", "e">>,
      program |-> <<"P", "h", "a", "r", "m", "a", "c", "o", "v", "i", "g", "i", "l", "a", "n", "c",
                    "e", " ", "R", "e", "p", "o", "r", "t", "i", "n", "g">>,
      requester |-> <<"J", "a", "n", "e", " ", "S", "m", "i", "t", "h">> ],
    [
      name |-> <<"M", "a", "r", "k", "e", "t", "i", "n", "g", " ", "C", "a", "m", "p", "a", "i",
                 "g", "n", " ", "L", "o", "c", "a", "l", "i", "z", "a", "t", "i", "o", "n">>,
      workgroup |-> <<"G", "l", "o", "b", "a", "l", " ", "M", "a", "r", "k", "e", "t", "i", "n", "g">>,
      division |-> <<"C", "o", "n", "s", "u", "m", "e", "r", " ", "P", "r", "o", "d", "u", "c", "t",
                     "s">>,
      product |-> <<"O", "p", "a", "l", " ", "C", "r", "e", "a", "t", "i", "v", "e">>,
      program |-> <<"Q", "4", " ", "P", "r", "o", "d", "u", "c", "t", " ", "L", "a", "u", "n", "c",
                    "h">>,
      requester |-> <<"A", "l", "i", "c", "e", " ", "J", "o", "h", "n", "s", "o", "n">> ]
  >>

\* null
Null == 0

\* What the user types into the Matcher's search box.
BlueprintSearchTerms == { <<>>, <<"M", "A", "R", "K", "E", "T", "I", "N", "G">> }

\* The delay of the Matcher's timer, in milliseconds.
AnalysisDelay == 3000

\* ------------------------------------------------------------------ state

VARIABLES
  files,                  \* TranslationPortal: the list of FileData
  searchTerm,             \* TranslationPortal: the intake search box
  isAnalysisPopupOpen,    \* TranslationPortal: the overlay's isOpen prop
  selectedBlueprint,      \* TranslationPortal: the chosen blueprint or Null
  currentStep,            \* TranslationPortal: "upload", "analyze", "finalize"
  isAnalyzing,            \* AnalysisPopup: Analyzing (TRUE) or Presenting
  popupSearchTerm,        \* AnalysisPopup: its searchTerm
  popupSelectedBlueprint, \* AnalysisPopup: its selectedBlueprint, the candidate
  timers,                 \* the pending timeouts of the AnalysisPopup's effect
  isEditing,              \* CheckAndFinalizeForm: edit mode
  editableBlueprint,      \* CheckAndFinalizeForm: the working copy
  onSaveChanges,          \* CheckAndFinalizeForm: the onSaveChanges prop
  lastOp,                 \* the name of the handler that ran last
  onSelectBlueprintCalls, \* the arguments onSelectBlueprint was called with
                          \* during the last step
  clearedTimeouts,        \* how many pending timeouts clearTimeout cancelled
                          \* during the last step
  formCalls               \* what the form called during the last step

rootVars == <<files, searchTerm, isAnalysisPopupOpen, selectedBlueprint, currentStep>>

popupVars == <<isAnalyzing, popupSearchTerm, popupSelectedBlueprint, timers>>

formVars == <<isEditing, editableBlueprint, onSaveChanges>>

vars ==
  <<rootVars, popupVars, formVars, lastOp, onSelectBlueprintCalls, clearedTimeouts, formCalls>>

\* The form called nothing: saved holds the arguments of the calls of a
\* supplied onSaveChanges, defaulted those of the calls of the default
\* parameter value, warned counts the calls of console.warn.
NoFormCalls == [saved |-> <<>>, defaulted |-> <<>>, warned |-> 0]

\* A handler outside the form: the form's state stays and it calls nothing.
OutsideForm == formCalls' = NoFormCalls /\ UNCHANGED formVars

\* ------------------------------------------------------------------ derived values

\* The early return of TranslationPortal: the Review stage is rendered
\* instead of the intake page and the AnalysisPopup.
ReviewRendered(step, chosen) == step = "finalize" /\ chosen # Null

\* The intake page is rendered.
IntakeRendered == ~ReviewRendered(currentStep, selectedBlueprint)

\* A plausible slip: the AnalysisPopup element is rendered in both returns.
AnalysisPopupAlwaysMounted(step, chosen) == TRUE

\* The AnalysisPopup element is part of the intake page's return only: it is
\* mounted exactly while that return is rendered.
AnalysisPopupMounted(step, chosen) == ~ReviewRendered(step, chosen)

\* The overlay is shown: the AnalysisPopup is mounted and its isOpen is true.
isOpen == AnalysisPopupMounted(currentStep, selectedBlueprint) /\ isAnalysisPopupOpen

\* useMemo filteredFiles.
filteredFiles ==
  LET shown(fileData) == includes(toLowerCase(fileData.path), toLowerCase(searchTerm))
  IN  SelectSeq(files, shown)

\* useMemo selectedFiles.
selectedFiles ==
  LET chosen(file) == file.selected
  IN  SelectSeq(files, chosen)

\* The predicate of useMemo filteredBlueprints, for catalog entry b.
matchesSearch(b, term) ==
  \/ includes(toLowerCase(blueprints[b].name), toLowerCase(term))
  \/ includes(toLowerCase(blueprints[b].workgroup), toLowerCase(term))
  \/ includes(toLowerCase(blueprints[b].division), toLowerCase(term))
  \/ includes(toLowerCase(blueprints[b].product), toLowerCase(term))
  \/ includes(toLowerCase(blueprints[b].program), toLowerCase(term))
  \/ includes(toLowerCase(blueprints[b].requester), toLowerCase(term))

\* useMemo filteredBlueprints, as catalog indices in catalog order.
filteredBlueprints ==
  LET shown(b) == matchesSearch(b, popupSearchTerm)
  IN  SelectSeq([b \in 1..Len(blueprints) |-> b], shown)

\* ------------------------------------------------------------------ initial state

Init ==
  /\ files = <<>>
  /\ searchTerm = <<>>
  /\ isAnalysisPopupOpen = FALSE
  /\ selectedBlueprint = Null
  /\ currentStep = "upload"
  /\ isAnalyzing = TRUE
  /\ popupSearchTerm = <<>>
  /\ popupSelectedBlueprint = Null
  /\ timers = <<>>
  /\ isEditing = FALSE
  /\ editableBlueprint = Null
  /\ onSaveChanges = "undefined"
  /\ lastOp = "init"
  /\ onSelectBlueprintCalls = <<>>
  /\ clearedTimeouts = 0
  /\ formCalls = NoFormCalls

\* ------------------------------------------------------------------ intake handlers

\* file.path || file.webkitRelativePath || file.name
relativePathOf(file) ==
  IF file.path # <<>> THEN file.path
  ELSE IF file.webkitRelativePath # <<>> THEN file.webkitRelativePath
  ELSE file.name

\* The FileData onDrop makes of one accepted file.
newFileData(file) ==
  [path |-> relativePathOf(file),
   type |-> determineFileType(relativePathOf(file)),
   selected |-> FALSE]

\* A handler of the root that sets only files: the popup's props stay as
\* they are, so no effect of the popup runs.
OnlyFilesChange(op) ==
  /\ lastOp' = op
  /\ onSelectBlueprintCalls' = <<>>
  /\ clearedTimeouts' = 0
  /\ OutsideForm
  /\ UNCHANGED <<searchTerm, isAnalysisPopupOpen, selectedBlueprint, currentStep, popupVars>>

\* onDrop(acceptedFiles): the dropzone belongs to the intake page.
onDrop(acceptedFiles) ==
  /\ IntakeRendered
  /\ files' = files \o [i \in 1..Len(acceptedFiles) |-> newFileData(acceptedFiles[i])]
  /\ OnlyFilesChange("onDrop")

\* handleTypeChange(index, newType), from the selector of row index of the
\* filtered table (rows are counted from 1 here).
handleTypeChange(index, newType) ==
  /\ IntakeRendered
  /\ index \in 1..Len(filteredFiles)
  /\ files' = [i \in 1..Len(files) |->
                 IF i = index THEN [files[i] EXCEPT !.type = newType] ELSE files[i]]
  /\ OnlyFilesChange("handleTypeChange")

\* handleCheckboxChange(index), from the checkbox of row index of the
\* filtered table.
handleCheckboxChange(index) ==
  /\ IntakeRendered
  /\ index \in 1..Len(filteredFiles)
  /\ files' = [i \in 1..Len(files) |->
                 IF i = index THEN [files[i] EXCEPT !.selected = ~files[i].selected]
                 ELSE files[i]]
  /\ OnlyFilesChange("handleCheckboxChange")

\* A plausible slip: the bulk action also clears the selection.
handleBulkTypeChangeClearing(newType) ==
  /\ IntakeRendered
  /\ Len(selectedFiles) > 0
  /\ files' = [i \in 1..Len(files) |->
                 IF files[i].selected
                 THEN [files[i] EXCEPT !.type = newType, !.selected = FALSE]
                 ELSE files[i]]
  /\ OnlyFilesChange("handleBulkTypeChange")

\* A plausible slip: the bulk action goes over the rows the search shows.
handleBulkTypeChangeShown(newType) ==
  /\ IntakeRendered
  /\ Len(selectedFiles) > 0
  /\ files' = [i \in 1..Len(files) |->
                 IF /\ files[i].selected
                    /\ includes(toLowerCase(files[i].path), toLowerCase(searchTerm))
                 THEN [files[i] EXCEPT !.type = newType]
                 ELSE files[i]]
  /\ OnlyFilesChange("handleBulkTypeChange")

\* handleBulkTypeChange(newType); its buttons are disabled while no file is
\* selected.
handleBulkTypeChange(newType) ==
  /\ IntakeRendered
  /\ Len(selectedFiles) > 0
  /\ files' = [i \in 1..Len(files) |->
                 IF files[i].selected THEN [files[i] EXCEPT !.type = newType] ELSE files[i]]
  /\ OnlyFilesChange("handleBulkTypeChange")

\* handleDone; its button is disabled while no file is selected.
handleDone ==
  /\ IntakeRendered
  /\ Len(selectedFiles) > 0
  /\ files' = [i \in 1..Len(files) |-> [files[i] EXCEPT !.selected = FALSE]]
  /\ OnlyFilesChange("handleDone")

\* A plausible slip: the filter keeps the selected files.
handleDeleteSelectedInverted ==
  /\ IntakeRendered
  /\ Len(selectedFiles) > 0
  /\ files' = selectedFiles
  /\ OnlyFilesChange("handleDeleteSelected")

\* handleDeleteSelected; its button is disabled while no file is selected.
handleDeleteSelected ==
  /\ IntakeRendered
  /\ Len(selectedFiles) > 0
  /\ files' = LET kept(file) == ~file.selected IN SelectSeq(files, kept)
  /\ OnlyFilesChange("handleDeleteSelected")

\* The intake search box's onChange; the box is rendered once a file exists.
setSearchTerm(term) ==
  /\ IntakeRendered
  /\ Len(files) > 0
  /\ term # searchTerm
  /\ searchTerm' = term
  /\ lastOp' = "setSearchTerm"
  /\ onSelectBlueprintCalls' = <<>>
  /\ clearedTimeouts' = 0
  /\ OutsideForm
  /\ UNCHANGED <<files, isAnalysisPopupOpen, selectedBlueprint, currentStep, popupVars>>

\* ------------------------------------------------------------------ intake specification

\* The intake page alone: drops of up to MaxFiles files and every intake
\* operation on them.
IntakeNext ==
  \/ \E acceptedFiles \in Drops(DroppedFiles, MaxFiles, Len(files)) : onDrop(acceptedFiles)
  \/ \E index \in 1..MaxFiles, newType \in FileTypes : handleTypeChange(index, newType)
  \/ \E index \in 1..MaxFiles : handleCheckboxChange(index)
  \/ \E newType \in FileTypes : handleBulkTypeChange(newType)
  \/ handleDone
  \/ handleDeleteSelected
  \/ \E term \in FileSearchTerms : setSearchTerm(term)

IntakeSpec == Init /\ [][IntakeNext]_vars

\* ------------------------------------------------------------------ delete specification

\* Every FileData the intake operations can make of the dropped files.
FileDataValues ==
  [path : {relativePathOf(f) : f \in DroppedFiles}, type : FileTypes, selected : BOOLEAN]

\* handleDeleteSelected applied to every file list of at most MaxListLen
\* files: drops, type changes and checkbox changes reach every such list.
DeleteInit ==
  /\ files \in UNION { [1..n -> FileDataValues] : n \in 0..MaxListLen }
  /\ searchTerm = <<>>
  /\ isAnalysisPopupOpen = FALSE
  /\ selectedBlueprint = Null
  /\ currentStep = "upload"
  /\ isAnalyzing = TRUE
  /\ popupSearchTerm = <<>>
  /\ popupSelectedBlueprint = Null
  /\ timers = <<>>
  /\ isEditing = FALSE
  /\ editableBlueprint = Null
  /\ onSaveChanges = "undefined"
  /\ lastOp = "init"
  /\ onSelectBlueprintCalls = <<>>
  /\ clearedTimeouts = 0
  /\ formCalls = NoFormCalls

DeleteNext == handleDeleteSelected

DeleteSpec == DeleteInit /\ [][DeleteNext]_vars

\* ------------------------------------------------------------------ the AnalysisPopup's life cycle

\* A pending timeout: the milliseconds left until it is due, and whether it
\* is the one the cleanup of the popup's current effect holds.
Timeout(ms) == [remaining |-> ms, current |-> TRUE]

\* The timeouts of earlier effects: no cleanup to come holds them.
Stale(ts) == [i \in 1..Len(ts) |-> [ts[i] EXCEPT !.current = FALSE]]

\* A plausible slip: the effect returns no cleanup.
cleanupMissing(ts) == ts

\* The cleanup the effect returns: clearTimeout of the timeout it set.
cleanup(ts) ==
  LET kept(t) == ~t.current
  IN  SelectSeq(ts, kept)

\* The effect of the AnalysisPopup, run with the isOpen it renders with:
\* while open it sets a timeout of AnalysisDelay and returns its cleanup.
useEffect(open, ts) ==
  IF open THEN Stale(ts) \o <<Timeout(AnalysisDelay)>> ELSE Stale(ts)

\* The timeouts after a render of TranslationPortal with the new session
\* state: a popup that stays mounted runs its effect again, the previous
\* run cleaned up before, when isOpen has changed; a popup that is
\* unmounted has its effect cleaned up; a popup that is mounted runs its
\* effect.
RenderedTimeouts(newStep, newOpen, newChosen) ==
  LET was == AnalysisPopupMounted(currentStep, selectedBlueprint)
      now == AnalysisPopupMounted(newStep, newChosen)
  IN  IF ~now THEN (IF was THEN cleanup(timers) ELSE timers)
      ELSE IF ~was THEN useEffect(newOpen, timers)
      ELSE IF newOpen # isAnalysisPopupOpen THEN useEffect(newOpen, cleanup(timers))
      ELSE timers

\* What a render of TranslationPortal with the new session state does to
\* the AnalysisPopup: a popup that stays mounted keeps its state; a popup
\* that is unmounted keeps, in the model, the values it had; a popup that
\* is mounted starts from its useState initial values. React runs the
\* effects of a render caused by a click before any timeout callback can
\* run, so they are part of the handler's step.
RenderAnalysisPopup(newStep, newOpen, newChosen) ==
  LET was == AnalysisPopupMounted(currentStep, selectedBlueprint)
      now == AnalysisPopupMounted(newStep, newChosen)
      pendingBefore == Len(timers)
      setNow == IF now /\ newOpen /\ (~was \/ newOpen # isAnalysisPopupOpen) THEN 1 ELSE 0
  IN  /\ isAnalyzing' = IF now /\ ~was THEN TRUE ELSE isAnalyzing
      /\ popupSearchTerm' = IF now /\ ~was THEN <<>> ELSE popupSearchTerm
      /\ popupSelectedBlueprint' = IF now /\ ~was THEN Null ELSE popupSelectedBlueprint
      /\ timers' = RenderedTimeouts(newStep, newOpen, newChosen)
      /\ clearedTimeouts' =
           pendingBefore + setNow - Len(RenderedTimeouts(newStep, newOpen, newChosen))

\* ------------------------------------------------------------------ the form's life cycle

\* sourceLocale and targetLocales of the catalog entries.
blueprintLocales ==
  << [sourceLocale |-> "en", targetLocales |-> <<"de", "fr", "es">>],
     [sourceLocale |-> "de", targetLocales |-> <<"en", "it", "nl">>],
     [sourceLocale |-> "en", targetLocales |-> <<"fr", "es", "ja", "ko">>] >>

\* useState({ ...selectedBlueprint }): the working copy, by the fields the
\* form edits or the search reads; a catalog entry has no referenceId.
workingCopy(blueprint) ==
  [name |-> blueprints[blueprint].name,
   workgroup |-> blueprints[blueprint].workgroup,
   division |-> blueprints[blueprint].division,
   product |-> blueprints[blueprint].product,
   program |-> blueprints[blueprint].program,
   requester |-> blueprints[blueprint].requester,
   sourceLocale |-> blueprintLocales[blueprint].sourceLocale,
   targetLocales |-> blueprintLocales[blueprint].targetLocales,
   referenceId |-> <<>>]

\* What a render of TranslationPortal with the new session state does to
\* the CheckAndFinalizeForm: mounted, it starts from its useState initial
\* values, with no onSaveChanges passed; its state is gone once it is
\* unmounted.
RenderForm(newStep, newChosen) ==
  LET was == ReviewRendered(currentStep, selectedBlueprint)
      now == ReviewRendered(newStep, newChosen)
  IN  /\ isEditing' = IF now /\ was THEN isEditing ELSE FALSE
      /\ editableBlueprint' =
           IF now /\ was THEN editableBlueprint
           ELSE IF now THEN workingCopy(newChosen)
           ELSE Null
      /\ onSaveChanges' = IF now /\ ~was THEN "undefined" ELSE onSaveChanges
      /\ formCalls' = NoFormCalls

\* ------------------------------------------------------------------ wizard handlers

\* A plausible slip: Next opens the overlay and leaves the stage as it is.
handleNextKeepingStep ==
  /\ IntakeRendered
  /\ Len(files) > 0
  /\ isAnalysisPopupOpen' = TRUE
  /\ RenderAnalysisPopup(currentStep, TRUE, selectedBlueprint)
  /\ RenderForm(currentStep, selectedBlueprint)
  /\ lastOp' = "handleNext"
  /\ onSelectBlueprintCalls' = <<>>
  /\ UNCHANGED <<files, searchTerm, selectedBlueprint, currentStep>>

\* handleNext; both Next buttons are rendered once a file exists.
handleNext ==
  /\ IntakeRendered
  /\ Len(files) > 0
  /\ isAnalysisPopupOpen' = TRUE
  /\ currentStep' = "analyze"
  /\ RenderAnalysisPopup("analyze", TRUE, selectedBlueprint)
  /\ RenderForm("analyze", selectedBlueprint)
  /\ lastOp' = "handleNext"
  /\ onSelectBlueprintCalls' = <<>>
  /\ UNCHANGED <<files, searchTerm, selectedBlueprint>>

\* Real time passes while a timeout is not yet due.
Tick ==
  /\ \E i \in 1..Len(timers) : timers[i].remaining > 0
  /\ timers' = [i \in 1..Len(timers) |->
                  [timers[i] EXCEPT !.remaining = IF @ > TickMs THEN @ - TickMs ELSE 0]]
  /\ lastOp' = "Tick"
  /\ onSelectBlueprintCalls' = <<>>
  /\ clearedTimeouts' = 0
  /\ OutsideForm
  /\ UNCHANGED <<rootVars, isAnalyzing, popupSearchTerm, popupSelectedBlueprint>>

\* The timeouts but the i-th.
Without(ts, i) == SubSeq(ts, 1, i - 1) \o SubSeq(ts, i + 1, Len(ts))

\* A plausible slip: the callback leaves the candidate as it is.
timerFiresNoCandidate ==
  /\ \E i \in 1..Len(timers) :
       /\ timers[i].remaining = 0
       /\ timers' = Without(timers, i)
  /\ isAnalyzing' = FALSE
  /\ lastOp' = "timerFires"
  /\ onSelectBlueprintCalls' = <<>>
  /\ clearedTimeouts' = 0
  /\ OutsideForm
  /\ UNCHANGED <<rootVars, popupSearchTerm, popupSelectedBlueprint>>

\* The callback of setTimeout, run for a timeout that is due; React drops
\* the state updates of a component that is not mounted.
timerFires ==
  /\ \E i \in 1..Len(timers) :
       /\ timers[i].remaining = 0
       /\ timers' = Without(timers, i)
  /\ IF AnalysisPopupMounted(currentStep, selectedBlueprint)
     THEN isAnalyzing' = FALSE /\ popupSelectedBlueprint' = 1
     ELSE UNCHANGED <<isAnalyzing, popupSelectedBlueprint>>
  /\ lastOp' = "timerFires"
  /\ onSelectBlueprintCalls' = <<>>
  /\ clearedTimeouts' = 0
  /\ OutsideForm
  /\ UNCHANGED <<rootVars, popupSearchTerm>>

\* The Matcher's search box's onChange; rendered while Presenting.
setPopupSearchTerm(term) ==
  /\ isOpen
  /\ ~isAnalyzing
  /\ term # popupSearchTerm
  /\ popupSearchTerm' = term
  /\ lastOp' = "setPopupSearchTerm"
  /\ onSelectBlueprintCalls' = <<>>
  /\ clearedTimeouts' = 0
  /\ OutsideForm
  /\ UNCHANGED <<rootVars, isAnalyzing, popupSelectedBlueprint, timers>>

\* AnalysisPopup's handleSelectBlueprint, from a click on one of the cards
\* of filteredBlueprints.
popupHandleSelectBlueprint(blueprint) ==
  /\ isOpen
  /\ ~isAnalyzing
  /\ \E k \in 1..Len(filteredBlueprints) : filteredBlueprints[k] = blueprint
  /\ popupSelectedBlueprint' = blueprint
  /\ lastOp' = "popupHandleSelectBlueprint"
  /\ onSelectBlueprintCalls' = <<>>
  /\ clearedTimeouts' = 0
  /\ OutsideForm
  /\ UNCHANGED <<rootVars, isAnalyzing, popupSearchTerm, timers>>

\* TranslationPortal's handleSelectBlueprint, the popup's onSelectBlueprint.
handleSelectBlueprint(blueprint) ==
  /\ selectedBlueprint' = blueprint
  /\ isAnalysisPopupOpen' = FALSE
  /\ currentStep' = "finalize"
  /\ RenderAnalysisPopup("finalize", FALSE, blueprint)
  /\ RenderForm("finalize", blueprint)
  /\ onSelectBlueprintCalls' = <<blueprint>>
  /\ UNCHANGED <<files, searchTerm>>

\* A plausible slip: Confirm passes the first card shown, or the first
\* catalog entry when the search shows none.
handleConfirmSelectionFirstShown ==
  /\ isOpen
  /\ ~isAnalyzing
  /\ popupSelectedBlueprint # Null
  /\ handleSelectBlueprint(IF Len(filteredBlueprints) > 0 THEN filteredBlueprints[1] ELSE 1)
  /\ lastOp' = "handleConfirmSelection"

\* handleConfirmSelection; the Confirm buttons are rendered while
\* Presenting and disabled while no candidate is selected.
handleConfirmSelection ==
  /\ isOpen
  /\ ~isAnalyzing
  /\ popupSelectedBlueprint # Null
  /\ handleSelectBlueprint(popupSelectedBlueprint)
  /\ lastOp' = "handleConfirmSelection"

\* A plausible slip: Cancel also takes the session back to the intake stage.
onCloseToUpload ==
  /\ isOpen
  /\ ~isAnalyzing
  /\ isAnalysisPopupOpen' = FALSE
  /\ currentStep' = "upload"
  /\ RenderAnalysisPopup("upload", FALSE, selectedBlueprint)
  /\ RenderForm("upload", selectedBlueprint)
  /\ lastOp' = "onClose"
  /\ onSelectBlueprintCalls' = <<>>
  /\ UNCHANGED <<files, searchTerm, selectedBlueprint>>

\* onClose, the Cancel button's handler; rendered while Presenting.
onClose ==
  /\ isOpen
  /\ ~isAnalyzing
  /\ isAnalysisPopupOpen' = FALSE
  /\ RenderAnalysisPopup(currentStep, FALSE, selectedBlueprint)
  /\ RenderForm(currentStep, selectedBlueprint)
  /\ lastOp' = "onClose"
  /\ onSelectBlueprintCalls' = <<>>
  /\ UNCHANGED <<files, searchTerm, selectedBlueprint, currentStep>>

\* A plausible slip: Back takes the session to the intake stage.
handleBackToUpload ==
  /\ ReviewRendered(currentStep, selectedBlueprint)
  /\ currentStep' = "upload"
  /\ isAnalysisPopupOpen' = TRUE
  /\ RenderAnalysisPopup("upload", TRUE, selectedBlueprint)
  /\ RenderForm("upload", selectedBlueprint)
  /\ lastOp' = "handleBack"
  /\ onSelectBlueprintCalls' = <<>>
  /\ UNCHANGED <<files, searchTerm, selectedBlueprint>>

\* handleBack, the Review stage's onBack.
handleBack ==
  /\ ReviewRendered(currentStep, selectedBlueprint)
  /\ currentStep' = "analyze"
  /\ isAnalysisPopupOpen' = TRUE
  /\ RenderAnalysisPopup("analyze", TRUE, selectedBlueprint)
  /\ RenderForm("analyze", selectedBlueprint)
  /\ lastOp' = "handleBack"
  /\ onSelectBlueprintCalls' = <<>>
  /\ UNCHANGED <<files, searchTerm, selectedBlueprint>>

\* A plausible slip: the chosen blueprint is not cleared.
handleSubmitProjectKeepingBlueprint ==
  /\ ReviewRendered(currentStep, selectedBlueprint)
  /\ files' = <<>>
  /\ currentStep' = "upload"
  /\ RenderAnalysisPopup("upload", isAnalysisPopupOpen, selectedBlueprint)
  /\ RenderForm("upload", selectedBlueprint)
  /\ lastOp' = "handleSubmitProject"
  /\ onSelectBlueprintCalls' = <<>>
  /\ UNCHANGED <<searchTerm, isAnalysisPopupOpen, selectedBlueprint>>

\* handleSubmitProject, the Review stage's onSubmit.
handleSubmitProject ==
  /\ ReviewRendered(currentStep, selectedBlueprint)
  /\ files' = <<>>
  /\ selectedBlueprint' = Null
  /\ currentStep' = "upload"
  /\ RenderAnalysisPopup("upload", isAnalysisPopupOpen, Null)
  /\ RenderForm("upload", Null)
  /\ lastOp' = "handleSubmitProject"
  /\ onSelectBlueprintCalls' = <<>>
  /\ UNCHANGED <<searchTerm, isAnalysisPopupOpen>>

\* ------------------------------------------------------------------ form handlers

\* What the user enters in edit mode: a reference id, an item of the
\* workgroup select, a set of options of the target locales select.
ReferenceIdInputs == { <<"R", "1">> }

WorkgroupInputs == { <<"w", "o", "r", "k", "g", "r", "o", "u", "p", "2">> }

TargetLocalesInputs == { <<"de", "it">> }

\* The props the form can be given as onSaveChanges: none, a function, or a
\* value that is not a function.
OnSaveChangesProps == {"undefined", "function", "null"}

\* setEditableBlueprint({ ...editableBlueprint, [field]: value }), from the
\* control of the field; the controls are rendered in edit mode.
setEditableBlueprint(field, value) ==
  /\ ReviewRendered(currentStep, selectedBlueprint)
  /\ isEditing
  /\ editableBlueprint' = [editableBlueprint EXCEPT ![field] = value]
  /\ formCalls' = NoFormCalls
  /\ lastOp' = "setEditableBlueprint"
  /\ onSelectBlueprintCalls' = <<>>
  /\ clearedTimeouts' = 0
  /\ UNCHANGED <<rootVars, popupVars, isEditing, onSaveChanges>>

\* A plausible slip: the parameter has no default value.
boundOnSaveChangesNoDefault == onSaveChanges

\* The value the parameter onSaveChanges is bound to: the default value, a
\* function that does nothing, when the prop is undefined.
boundOnSaveChanges == IF onSaveChanges = "undefined" THEN "default" ELSE onSaveChanges

\* What toggleEdit calls when it finds isEditing true.
saveChanges ==
  IF boundOnSaveChanges = "function"
  THEN [NoFormCalls EXCEPT !.saved = <<editableBlueprint>>]
  ELSE IF boundOnSaveChanges = "default"
  THEN [NoFormCalls EXCEPT !.defaulted = <<editableBlueprint>>]
  ELSE [NoFormCalls EXCEPT !.warned = 1]

\* A plausible slip: the press that enters edit mode saves.
toggleEditSavingOnEnter ==
  /\ ReviewRendered(currentStep, selectedBlueprint)
  /\ formCalls' = IF ~isEditing THEN saveChanges ELSE NoFormCalls
  /\ isEditing' = ~isEditing
  /\ lastOp' = "toggleEdit"
  /\ onSelectBlueprintCalls' = <<>>
  /\ clearedTimeouts' = 0
  /\ UNCHANGED <<rootVars, popupVars, editableBlueprint, onSaveChanges>>

\* A plausible slip: leaving edit mode takes the working copy back to the
\* blueprint the form was given.
toggleEditDiscarding ==
  /\ ReviewRendered(currentStep, selectedBlueprint)
  /\ formCalls' = IF isEditing THEN saveChanges ELSE NoFormCalls
  /\ isEditing' = ~isEditing
  /\ editableBlueprint' =
       IF isEditing THEN workingCopy(selectedBlueprint) ELSE editableBlueprint
  /\ lastOp' = "toggleEdit"
  /\ onSelectBlueprintCalls' = <<>>
  /\ clearedTimeouts' = 0
  /\ UNCHANGED <<rootVars, popupVars, onSaveChanges>>

\* toggleEdit, the handler of the Edit / Save button.
toggleEdit ==
  /\ ReviewRendered(currentStep, selectedBlueprint)
  /\ formCalls' = IF isEditing THEN saveChanges ELSE NoFormCalls
  /\ isEditing' = ~isEditing
  /\ lastOp' = "toggleEdit"
  /\ onSelectBlueprintCalls' = <<>>
  /\ clearedTimeouts' = 0
  /\ UNCHANGED <<rootVars, popupVars, editableBlueprint, onSaveChanges>>

\* ------------------------------------------------------------------ wizard specification

Next ==
  \/ \E acceptedFiles \in Drops(WizardDroppedFiles, MaxWizardFiles, Len(files)) :
       onDrop(acceptedFiles)
  \/ \E index \in 1..MaxWizardFiles, newType \in FileTypes : handleTypeChange(index, newType)
  \/ \E index \in 1..MaxWizardFiles : handleCheckboxChange(index)
  \/ \E newType \in FileTypes : handleBulkTypeChange(newType)
  \/ handleDone
  \/ handleDeleteSelected
  \/ \E term \in FileSearchTerms : setSearchTerm(term)
  \/ handleNext
  \/ Tick
  \/ timerFires
  \/ \E term \in BlueprintSearchTerms : setPopupSearchTerm(term)
  \/ \E blueprint \in 1..Len(blueprints) : popupHandleSelectBlueprint(blueprint)
  \/ handleConfirmSelection
  \/ onClose
  \/ handleBack
  \/ handleSubmitProject
  \/ toggleEdit
  \/ \E value \in ReferenceIdInputs : setEditableBlueprint("referenceId", value)
  \/ \E value \in WorkgroupInputs : setEditableBlueprint("workgroup", value)
  \/ \E value \in TargetLocalesInputs : setEditableBlueprint("targetLocales", value)

Spec == Init /\ [][Next]_vars

\* ------------------------------------------------------------------ form specification

\* The CheckAndFinalizeForm by itself, rendered for any catalog entry with
\* any of the onSaveChanges props, no file listed.
FormInit ==
  /\ files = <<>>
  /\ searchTerm = <<>>
  /\ isAnalysisPopupOpen = FALSE
  /\ selectedBlueprint \in 1..Len(blueprints)
  /\ currentStep = "finalize"
  /\ isAnalyzing = TRUE
  /\ popupSearchTerm = <<>>
  /\ popupSelectedBlueprint = Null
  /\ timers = <<>>
  /\ isEditing = FALSE
  /\ editableBlueprint = workingCopy(selectedBlueprint)
  /\ onSaveChanges \in OnSaveChangesProps
  /\ lastOp = "init"
  /\ onSelectBlueprintCalls = <<>>
  /\ clearedTimeouts = 0
  /\ formCalls = NoFormCalls

FormNext ==
  \/ toggleEdit
  \/ \E value \in ReferenceIdInputs : setEditableBlueprint("referenceId", value)
  \/ \E value \in WorkgroupInputs : setEditableBlueprint("workgroup", value)
  \/ \E value \in TargetLocalesInputs : setEditableBlueprint("targetLocales", value)
  \/ handleBack
  \/ handleSubmitProject

FormSpec == FormInit /\ [][FormNext]_vars

\* ------------------------------------------------------------------ properties of the intake page

NoFileSelected(list) == \A i \in 1..Len(list) : ~list[i].selected

\* The search box hides the file: its path does not contain the term.
Hidden(file) == ~includes(toLowerCase(file.path), toLowerCase(searchTerm))

\* The original statement of C3: after a Bulk set classification action
\* completes, every file's selection flag is false.
C3_BulkClearsSelection ==
  lastOp = "handleBulkTypeChange" => NoFileSelected(files)

\* C3, as amended: Bulk set classification leaves the length of the list and
\* every file's selection flag as they were, so the selected files stay
\* selected; it is Done that sets every selection flag to false.
C3_BulkKeepsSelection ==
  [][ /\ lastOp' = "handleBulkTypeChange" =>
           /\ Len(files') = Len(files)
           /\ \A i \in 1..Len(files) : files'[i].selected = files[i].selected
           /\ ~NoFileSelected(files')
      /\ lastOp' = "handleDone" => NoFileSelected(files') ]_vars

\* A bulk action has run on a list with a selected and an unselected file.
C3_Witness ==
  /\ lastOp = "handleBulkTypeChange"
  /\ \E i, j \in 1..Len(files) : files[i].selected /\ ~files[j].selected

\* C4: Bulk set classification(tag) sets the tag of exactly the files whose
\* selection flag is true when it is called, hidden by the search term or
\* not, and leaves the tag of every other file, every path, and the length
\* and order of the list unchanged.
C4_BulkFrame ==
  [][ \A newType \in FileTypes :
        handleBulkTypeChange(newType) =>
          /\ Len(files') = Len(files)
          /\ \A i \in 1..Len(files) :
               /\ files'[i].path = files[i].path
               /\ files[i].selected => files'[i].type = newType
               /\ ~files[i].selected => files'[i].type = files[i].type ]_vars

\* A bulk action has run while a selected file was hidden by the search
\* term, next to an unselected file of another tag: the hidden file carries
\* a tag its path does not classify to.
C4_Witness ==
  /\ lastOp = "handleBulkTypeChange"
  /\ \E i, j \in 1..Len(files) :
       /\ files[i].selected
       /\ Hidden(files[i])
       /\ files[i].type # determineFileType(files[i].path)
       /\ ~files[j].selected
       /\ files[j].type # files[i].type

\* The indices of the files that are not selected.
Unselected(list) == {i \in 1..Len(list) : ~list[i].selected}

\* The place of file i among the unselected files of the list.
Rank(list, i) == Cardinality({k \in Unselected(list) : k <= i})

\* C5: Delete selected yields the list made of exactly the files whose
\* selection flag was false, in their original relative order and with path
\* and tag unchanged; afterwards no file in the list is selected.
C5_DeleteSelected ==
  [][ handleDeleteSelected =>
        /\ Len(files') = Cardinality(Unselected(files))
        /\ \A i \in Unselected(files) :
             /\ files'[Rank(files, i)].path = files[i].path
             /\ files'[Rank(files, i)].type = files[i].type
        /\ NoFileSelected(files') ]_vars

\* A delete has run and left two files that differ, so their order shows.
C5_Witness ==
  /\ lastOp = "handleDeleteSelected"
  /\ Len(files) = 2
  /\ files[1] # files[2]

\* c and d are the same letter in either case, or the same character.
SameLetter(c, d) ==
  \/ c = d
  \/ \E i \in 1..Len(UpperCase) : {c, d} = {UpperCase[i], LowerCase[i]}

\* The keyword occurs in the path in some letter case.
ContainsAnyCase(path, keyword) ==
  \E i \in 0..(Len(path) - Len(keyword)) :
    \A j \in 1..Len(keyword) : SameLetter(path[i + j], keyword[j])

\* The entries of the table whose keyword the path contains in some case.
Matches(path) ==
  {n \in 1..Len(fileTypeMap) : ContainsAnyCase(path, fileTypeMap[n].keyword)}

\* The tag of the first matching entry in table order, work when none.
FirstMatchType(path) ==
  IF Matches(path) = {} THEN "work"
  ELSE fileTypeMap[CHOOSE n \in Matches(path) : \A m \in Matches(path) : n <= m].type

\* C6: every file a drop appends is classified with the tag of the first
\* keyword, in the fixed table order, that occurs in its path in any letter
\* case, and with work when no keyword occurs in it.
C6_FirstKeywordWins ==
  [][ lastOp' = "onDrop" =>
        \A i \in (Len(files) + 1)..Len(files') :
          files'[i].type = FirstMatchType(files'[i].path) ]_vars

\* A drop has appended a file whose path holds a keyword in upper case and
\* keywords of two tags (the first in table order decides), after a file
\* that holds no keyword.
C6_Witness ==
  /\ lastOp = "onDrop"
  /\ Len(files) >= 2
  /\ Matches(files[1].path) = {}
  /\ files[1].type = "work"
  /\ LET last == files[Len(files)]
     IN  /\ includes(last.path, <<"R", "E", "F">>)
         /\ {fileTypeMap[n].type : n \in Matches(last.path)} = {"reference", "glossary"}
         /\ last.type = "reference"

\* ------------------------------------------------------------------ properties of the wizard

\* C1: every opening of the Matcher (isOpen going from false to true)
\* puts it in the Analyzing state.
C1_OpeningAnalyzes ==
  [][ (~isAnalysisPopupOpen /\ isAnalysisPopupOpen') => isAnalyzing' ]_vars

\* C2: whenever the stage is not intake, no file of the list is selected.
C2_NoSelectionOutsideIntake ==
  currentStep # "upload" => NoFileSelected(files)

\* C7: Confirm passes exactly the current candidate to the confirmation
\* callback, once; afterwards the overlay is closed, the stage is finalize
\* and the chosen blueprint is that candidate. The candidate is the entry
\* last set by Select or by the timer: while the Matcher stays mounted
\* nothing else changes it, the search box in particular.
C7_ConfirmEmitsCandidate ==
  [][ /\ lastOp' = "handleConfirmSelection" =>
           /\ popupSelectedBlueprint # Null
           /\ onSelectBlueprintCalls' = <<popupSelectedBlueprint>>
           /\ ~isAnalysisPopupOpen'
           /\ ~isOpen'
           /\ currentStep' = "finalize"
           /\ selectedBlueprint' = popupSelectedBlueprint
      /\ lastOp' # "handleConfirmSelection" => onSelectBlueprintCalls' = <<>>
      /\ popupSelectedBlueprint' # popupSelectedBlueprint =>
           lastOp' \in {"popupHandleSelectBlueprint", "timerFires",
                        "handleBack", "handleSubmitProject"} ]_vars

\* Confirm has passed a candidate set by Select that the search term then
\* filtered out of the cards shown (the unmounted popup's variables keep the
\* values they had at Confirm).
C7_Witness ==
  /\ lastOp = "handleConfirmSelection"
  /\ selectedBlueprint = 2
  /\ onSelectBlueprintCalls = <<2>>
  /\ ~matchesSearch(selectedBlueprint, popupSearchTerm)

\* C8: Cancel closes the overlay without calling the confirmation callback
\* and leaves the stage (analyze), the chosen blueprint and the file list
\* unchanged.
C8_CancelFrame ==
  [][ lastOp' = "onClose" =>
        /\ isOpen
        /\ ~isOpen'
        /\ onSelectBlueprintCalls' = <<>>
        /\ currentStep' = currentStep
        /\ currentStep' = "analyze"
        /\ selectedBlueprint' = selectedBlueprint
        /\ files' = files ]_vars

\* Cancel has run in a reopening after Back: a blueprint is chosen, a file
\* is listed and the overlay is closed.
C8_Witness ==
  /\ lastOp = "onClose"
  /\ selectedBlueprint # Null
  /\ files # <<>>
  /\ ~isAnalysisPopupOpen

\* C9: after Submit the file list is empty, the chosen blueprint is null,
\* the stage is intake and the overlay is closed.
C9_SubmitResets ==
  lastOp = "handleSubmitProject" =>
    /\ files = <<>>
    /\ selectedBlueprint = Null
    /\ currentStep = "upload"
    /\ ~isAnalysisPopupOpen
    /\ ~isOpen

\* Submit has run in a session whose intake search box held a term.
C9_Witness ==
  /\ lastOp = "handleSubmitProject"
  /\ searchTerm # <<>>

\* C10: Back sets the stage to analyze and reopens the Matcher Analyzing,
\* with no candidate and a timer of the full delay; a pending timer only
\* runs down with time; the Matcher leaves Analyzing only when the delay
\* has run out, and then the first catalog entry is the candidate.
C10_BackRepeatsAnalysis ==
  [][ /\ lastOp' = "handleBack" =>
           /\ currentStep' = "analyze"
           /\ isOpen'
           /\ isAnalyzing'
           /\ popupSelectedBlueprint' = Null
           /\ timers' = <<Timeout(AnalysisDelay)>>
      /\ (timers # <<>> /\ timers' # <<>> /\ timers' # timers) =>
           /\ lastOp' = "Tick"
           /\ Len(timers') = Len(timers)
           /\ \A i \in 1..Len(timers) : timers'[i].remaining < timers[i].remaining
      /\ (isAnalyzing /\ ~isAnalyzing') =>
           /\ timers = <<Timeout(0)>>
           /\ isOpen'
           /\ popupSelectedBlueprint' = 1 ]_vars

\* Back has reopened the Matcher after a Confirm of the second catalog
\* entry: it is Analyzing again and holds no candidate.
C10_Witness ==
  /\ lastOp = "handleBack"
  /\ selectedBlueprint = 2
  /\ isOpen
  /\ isAnalyzing
  /\ popupSelectedBlueprint = Null

\* C11: the timeout an opening sets is cancelled when the Matcher is closed
\* (Cancel, Confirm) or unmounted before it is due: a timeout is pending
\* only while the Matcher is open, at most one at a time; the callback runs
\* only while the Matcher is open; while the Matcher stays closed its
\* Analyzing flag and candidate stay as they are, until a new instance is
\* mounted.
C11_TimerCancelledOnClose ==
  [][ /\ Len(timers') <= 1
      /\ timers' # <<>> => isOpen'
      /\ lastOp' = "timerFires" => isOpen
      /\ lastOp' \in {"onClose", "handleConfirmSelection"} =>
           /\ timers' = <<>>
           /\ clearedTimeouts' = Len(timers)
      /\ (/\ ~isOpen
          /\ ~isOpen'
          /\ <<isAnalyzing, popupSelectedBlueprint>>' # <<isAnalyzing, popupSelectedBlueprint>>) =>
           /\ ~AnalysisPopupMounted(currentStep, selectedBlueprint)
           /\ AnalysisPopupMounted(currentStep', selectedBlueprint') ]_vars

\* Cancel or Confirm has closed the Matcher while a timeout was pending, and
\* clearTimeout has cancelled it.
C11_Witness ==
  /\ lastOp \in {"onClose", "handleConfirmSelection"}
  /\ clearedTimeouts = 1
  /\ timers = <<>>
  /\ ~isOpen

\* The press of the edit control that leaves edit mode.
LeavesEditMode == lastOp' = "toggleEdit" /\ isEditing

\* C12: given a persist-changes function, each press of the edit control that
\* leaves edit mode calls it exactly once, with the working copy as it is at
\* that moment, and the form is read-only afterwards; a press that enters edit
\* mode, a field edit, Back and Submit call nothing.
C12_SaveOnLeavingEditMode ==
  [][ onSaveChanges = "function" =>
        /\ LeavesEditMode =>
             /\ formCalls' = [NoFormCalls EXCEPT !.saved = <<editableBlueprint>>]
             /\ ~isEditing'
        /\ ~LeavesEditMode => formCalls' = NoFormCalls ]_vars

\* Save has been pressed after an edit, and the persist-changes function has
\* been called once with the edited working copy.
C12_Witness ==
  /\ lastOp = "toggleEdit"
  /\ ~isEditing
  /\ onSaveChanges = "function"
  /\ formCalls.saved = <<editableBlueprint>>
  /\ editableBlueprint.referenceId # <<>>

\* C13 as stated: with no onSaveChanges prop, leaving edit mode skips the call
\* and logs a warning.
C13_AbsenceIsLogged ==
  [][ (onSaveChanges = "undefined" /\ LeavesEditMode) =>
        /\ formCalls'.warned = 1
        /\ formCalls'.saved = <<>>
        /\ formCalls'.defaulted = <<>>
        /\ ~isEditing' ]_vars

\* C13 as the code has it: with no onSaveChanges prop, leaving edit mode calls
\* the default value of the parameter, a function that does nothing, with the
\* working copy, and logs nothing; the warning is logged, and the call
\* skipped, exactly when the prop is a value that is not a function; in each
\* case the handler runs to its end and the form is read-only.
C13_AbsenceCallsDefault ==
  [][ LeavesEditMode =>
        /\ ~isEditing'
        /\ onSaveChanges = "undefined" =>
             formCalls' = [NoFormCalls EXCEPT !.defaulted = <<editableBlueprint>>]
        /\ onSaveChanges = "null" =>
             formCalls' = [NoFormCalls EXCEPT !.warned = 1]
        /\ formCalls'.warned = 1 => onSaveChanges = "null" ]_vars

\* Save has been pressed on a form given no onSaveChanges prop: the default
\* function has been called and no warning logged.
C13_Witness ==
  /\ lastOp = "toggleEdit"
  /\ ~isEditing
  /\ onSaveChanges = "undefined"
  /\ formCalls.defaulted = <<editableBlueprint>>
  /\ formCalls.warned = 0

\* C14: given no onSaveChanges prop, a field edit changes the working copy and
\* nothing else; leaving edit mode keeps the working copy as edited, so the
\* read-only view shows the edited values; neither changes the chosen
\* blueprint, which Back keeps as it was confirmed and only Submit clears.
\* (The catalog is a constant: the working copy is a spread copy of the entry,
\* and each edit replaces a field of the copy.)
C14_EditsStayLocal ==
  [][ onSaveChanges = "undefined" =>
        /\ lastOp' = "setEditableBlueprint" =>
             /\ UNCHANGED <<rootVars, popupVars, isEditing>>
             /\ formCalls' = NoFormCalls
        /\ lastOp' = "toggleEdit" =>
             /\ UNCHANGED <<rootVars, popupVars, editableBlueprint>>
             /\ formCalls'.saved = <<>>
        /\ lastOp' = "handleBack" => selectedBlueprint' = selectedBlueprint
        /\ selectedBlueprint' # selectedBlueprint => lastOp' = "handleSubmitProject" ]_vars

\* The form, given no onSaveChanges prop, is read-only again and shows a
\* workgroup and target locales other than those of the chosen blueprint.
C14_Witness ==
  /\ lastOp = "toggleEdit"
  /\ ~isEditing
  /\ onSaveChanges = "undefined"
  /\ editableBlueprint.workgroup # workingCopy(selectedBlueprint).workgroup
  /\ editableBlueprint.targetLocales # workingCopy(selectedBlueprint).targetLocales

\* C15: the stage changes only from intake to analyze by Next, from analyze
\* to finalize by Confirm, from finalize to analyze by Back and from finalize
\* to intake by Submit; so analyze is never followed by intake and intake
\* never by finalize.
C15_StageTransitions ==
  [][ currentStep' # currentStep =>
        \/ /\ currentStep = "upload"
           /\ currentStep' = "analyze"
           /\ lastOp' = "handleNext"
        \/ /\ currentStep = "analyze"
           /\ currentStep' = "finalize"
           /\ lastOp' = "handleConfirmSelection"
        \/ /\ currentStep = "finalize"
           /\ currentStep' = "analyze"
           /\ lastOp' = "handleBack"
        \/ /\ currentStep = "finalize"
           /\ currentStep' = "upload"
           /\ lastOp' = "handleSubmitProject" ]_vars

\* Back has taken the stage from finalize to analyze, the third catalog
\* entry being the chosen blueprint.
C15_Witness ==
  /\ lastOp = "handleBack"
  /\ currentStep = "analyze"
  /\ selectedBlueprint = 3

\* C16: whenever the Matcher is open and not Analyzing, a candidate is
\* selected.
C16_PresentingHasCandidate ==
  (isOpen /\ ~isAnalyzing) => popupSelectedBlueprint # Null

\* Next has reopened the Matcher after a Cancel: it is Presenting at once,
\* with the candidate it had at the Cancel.
C16_Witness ==
  /\ lastOp = "handleNext"
  /\ isOpen
  /\ ~isAnalyzing
  /\ popupSelectedBlueprint # Null

\* The place in files of the file shown in a row of the filtered table.
ShownPosition(row) ==
  CHOOSE p \in 1..Len(files) :
    /\ ~Hidden(files[p])
    /\ Cardinality({q \in 1..p : ~Hidden(files[q])}) = row

\* C17: the checkbox and the type selector of a row of the filtered table
\* change the selection flag, or the type, of the file shown in that row and
\* nothing else of the list.
C17_RowEditsShownFile ==
  [][ \A index \in 1..Len(filteredFiles) :
        /\ handleCheckboxChange(index) =>
             files' = [files EXCEPT ![ShownPosition(index)].selected = ~@]
        /\ \A newType \in FileTypes :
             handleTypeChange(index, newType) =>
               files' = [files EXCEPT ![ShownPosition(index)].type = newType] ]_vars

\* C18: while the Matcher stays open and Presenting, the candidate changes
\* only by Select.
C18_CandidateChangesBySelect ==
  [][ (/\ isOpen
       /\ ~isAnalyzing
       /\ isOpen'
       /\ popupSelectedBlueprint' # popupSelectedBlueprint) =>
        lastOp' = "popupHandleSelectBlueprint" ]_vars

\* C19: an open overlay implies the stage analyze; the stage finalize
\* implies a chosen blueprint and a closed overlay; the stage intake implies
\* no chosen blueprint and a closed overlay.
C19_RootInvariant ==
  /\ isAnalysisPopupOpen => currentStep = "analyze"
  /\ currentStep = "finalize" => (selectedBlueprint # Null /\ ~isAnalysisPopupOpen)
  /\ currentStep = "upload" => (selectedBlueprint = Null /\ ~isAnalysisPopupOpen)

\* The Review stage is displayed, in edit mode: the stage is finalize, a
\* blueprint is chosen and the overlay is closed.
C19_Witness ==
  /\ currentStep = "finalize"
  /\ selectedBlueprint # Null
  /\ ~isAnalysisPopupOpen
  /\ isEditing

====
